---- MODULE Spec2Model ----
(***************************************************************************)
(* Model of main.py: the catalog.data.gov scrapper.  Three specifications:  *)
(*   SpecGuess  guess_str_type applied to one cell drawn from a bounded    *)
(*              set of texts;                                              *)
(*   SpecInfer  identify_colummns_types (with choose_type_priority)        *)
(*              applied to data frames that grow row by row;               *)
(*   Spec       the batch loop of main(): download, read, export, zip.     *)
(* Text is a sequence of one-character strings.  A file name is the        *)
(* sequence of its '.'-separated parts, a path the sequence of its         *)
(* components.                                                             *)
(***************************************************************************)
EXTENDS Integers, Sequences, FiniteSets, TLC

VARIABLES dataframe, _types, typedRows, value, guess,
          urls, idx, pc, dirs, files, handles, log, exc

inferVars == <<dataframe, _types, typedRows, value, guess>>
mainVars  == <<urls, idx, pc, dirs, files, handles, log, exc>>
vars      == <<dataframe, _types, typedRows, value, guess,
               urls, idx, pc, dirs, files, handles, log, exc>>

\* ------------------------------------------------------------------ bounds
\* rows appended one by one to the initial frame
MaxAppend == 2
\* files in the list returned by retreive_download_url
MaxFiles == 2

\* ------------------------------------------------------- program constants
\* df_partial = dataframe[:100]
SampleSize == 100
\* len(_str) > 7
DateMinLen == 7
\* len(_str) < 11
DateMaxLen == 11

ALLOWED_EXTS == {"xls", "xlsx", "json", "xml", "rdf"}

\* Python's None where the other values are strings
None == "<None>"

Min(a, b) == IF a < b THEN a ELSE b

Last(s) == s[Len(s)]

\* ---------------------------------------------------------------- text
Digits == {"0", "1", "2", "3", "4", "5", "6", "7", "8", "9"}

\* str.strip(): drop the leading and the trailing blanks
RECURSIVE lstrip(_)
lstrip(s) == IF s # <<>> /\ s[1] = " " THEN lstrip(Tail(s)) ELSE s

RECURSIVE rstrip(_)
rstrip(s) == IF s # <<>> /\ s[Len(s)] = " "
             THEN rstrip(SubSeq(s, 1, Len(s) - 1)) ELSE s

strip(s) == rstrip(lstrip(s))

\* x in _str, for a one-character x
Contains(s, ch) == \E i \in 1..Len(s) : s[i] = ch

AllDigits(s) == s # <<>> /\ \A i \in 1..Len(s) : s[i] \in Digits

\* an unsigned Python integer literal: no leading zero unless all zeros
IsUInt(s) == /\ AllDigits(s)
             /\ (s[1] # "0" \/ \A i \in 1..Len(s) : s[i] = "0")

\* an unsigned Python float literal: digits '.' digits, one side may be empty
IsUFloat(s) == \E k \in 1..Len(s) :
                  /\ s[k] = "."
                  /\ Len(s) > 1
                  /\ (k = 1 \/ AllDigits(SubSeq(s, 1, k - 1)))
                  /\ (k = Len(s) \/ AllDigits(SubSeq(s, k + 1, Len(s))))

Unsigned(s) == IF s # <<>> /\ s[1] \in {"-", "+"} THEN Tail(s) ELSE s

\* type(literal_eval(_str)).__name__, "error" when literal_eval raises
literal_eval(s) ==
    IF IsUInt(Unsigned(s)) THEN "int"
    ELSE IF IsUFloat(Unsigned(s)) THEN "float"
    ELSE IF s = <<"T", "r", "u", "e">> THEN "bool"
    ELSE IF s = <<"N", "o", "n", "e">> THEN "NoneType"
    ELSE "error"

\* dateparser.parse(_str): the library's verdict comes with the cell
dateparse(cell) == IF cell.parses THEN "datetime" ELSE None

NaN == <<"n", "a", "n">>

\* the date rule with len(_str) >= 7 in place of len(_str) > 7
guess_str_type_short(cell) ==
    LET _str == strip(cell.text) IN
    IF _str = NaN THEN None
    ELSE IF /\ (Contains(_str, "-") \/ Contains(_str, "/"))
            /\ Len(_str) >= DateMinLen
            /\ Len(_str) < DateMaxLen
            /\ dateparse(cell) # None
         THEN "date"
    ELSE IF literal_eval(_str) # "error" THEN literal_eval(_str)
    ELSE "str"

guess_str_type(cell) ==
    LET _str == strip(cell.text) IN
    IF _str = NaN THEN None
    ELSE IF /\ (Contains(_str, "-") \/ Contains(_str, "/"))
            /\ Len(_str) > DateMinLen
            /\ Len(_str) < DateMaxLen
            /\ dateparse(cell) # None
         THEN "date"
    ELSE IF literal_eval(_str) # "error" THEN literal_eval(_str)
    ELSE "str"

InList(x, l) == \E i \in 1..Len(l) : l[i] = x

\* the priority with 'int' tested before 'float'
choose_type_priority_int_first(types) ==
    IF InList("str", types) THEN "VARCHAR(100)"
    ELSE IF InList("int", types) THEN "INT"
    ELSE IF InList("float", types) THEN "DECIMAL(17,4)"
    ELSE IF InList("date", types) THEN "DATETIME"
    ELSE "VARCHAR(100)"

choose_type_priority(types) ==
    IF InList("str", types) THEN "VARCHAR(100)"
    ELSE IF InList("float", types) THEN "DECIMAL(17,4)"
    ELSE IF InList("int", types) THEN "INT"
    ELSE IF InList("date", types) THEN "DATETIME"
    ELSE "VARCHAR(100)"

\* Series.drop_duplicates(): keep the first occurrence of each value
drop_duplicates(l) ==
    LET first == {i \in 1..Len(l) : \A j \in 1..(i - 1) : l[j] # l[i]}
    IN [k \in 1..Cardinality(first) |->
           l[CHOOSE i \in first : Cardinality({j \in first : j <= i}) = k]]

\* the whole frame in place of dataframe[:100]
head_all(df, n) == df

\* dataframe[:100]
head(df, n) == [columns |-> df.columns,
                rows |-> SubSeq(df.rows, 1, Min(n, Len(df.rows)))]

Labels(df) == {df.columns[i] : i \in 1..Len(df.columns)}

\* df[column]: the cells of the column carrying that label
Column(df, column) ==
    LET p == CHOOSE i \in 1..Len(df.columns) : df.columns[i] = column IN
    [r \in 1..Len(df.rows) |-> df.rows[r][p]]

identify_colummns_types(df) ==
    LET df_partial == head(df, SampleSize) IN
    [column \in Labels(df_partial) |->
        LET cells == Column(df_partial, column)
            types == drop_duplicates([r \in 1..Len(cells) |->
                                         guess_str_type(cells[r])])
        IN choose_type_priority(types)]

\* ------------------------------------------------- inputs of SpecInfer
Cell(t, p) == [text |-> t, parses |-> p]

IntOne    == Cell(<<"1">>, FALSE)
IntTwo    == Cell(<<"2">>, FALSE)
Float     == Cell(<<"2", ".", "5">>, FALSE)
Word      == Cell(<<"x">>, FALSE)
Missing   == Cell(NaN, FALSE)
\* " nan ": missing once trimmed
Padded    == Cell(<<" ", "n", "a", "n", " ">>, FALSE)
Bool      == Cell(<<"T", "r", "u", "e">>, FALSE)
\* "2020-01-01": 10 characters, accepted by the date parser
IsoDate   == Cell(<<"2", "0", "2", "0", "-", "0", "1", "-", "0", "1">>, TRUE)
\* "2020-13-45": date shaped, rejected by the date parser, not a literal
BadDate   == Cell(<<"2", "0", "2", "0", "-", "1", "3", "-", "4", "5">>, FALSE)
\* "-1234567": 8 characters, an int literal; the parser may accept it or not
NegDate   == Cell(<<"-", "1", "2", "3", "4", "5", "6", "7">>, TRUE)
NegInt    == Cell(<<"-", "1", "2", "3", "4", "5", "6", "7">>, FALSE)
\* "-123456": 7 characters, too short for the date rule
ShortDate == Cell(<<"-", "1", "2", "3", "4", "5", "6">>, TRUE)
\* "-1234567890": 11 characters, too long for the date rule
LongDate  == Cell(<<"-", "1", "2", "3", "4", "5", "6", "7", "8", "9", "0">>,
                  TRUE)
\* "20200101": accepted by the parser but without '-' or '/'
PlainDate == Cell(<<"2", "0", "2", "0", "0", "1", "0", "1">>, TRUE)
\* "1/2/2020": 8 characters with '/'
SlashDate == Cell(<<"1", "/", "2", "/", "2", "0", "2", "0">>, TRUE)

Values == {IntOne, IntTwo, Float, Word, Missing, Padded, Bool, IsoDate,
           BadDate, NegDate, NegInt, ShortDate, LongDate, PlainDate,
           SlashDate}

InferColumns == <<<<"a", 0>>, <<"b", 0>>>>

\* rows of the two-column frames
Rows == {<<IntOne, IntOne>>, <<IntTwo, Missing>>, <<Float, IntOne>>,
         <<Word, IsoDate>>, <<Missing, Float>>, <<IsoDate, IsoDate>>,
         <<Bool, Padded>>, <<NegDate, Bool>>}

BaseRows == {<<IntOne, IntOne>>, <<Missing, Missing>>, <<IsoDate, Float>>}

BaseLens == {0, SampleSize - 1, SampleSize}

NoTypes == [column \in {} |-> ""]

NoCell == Cell(<<>>, FALSE)

InitInferIdle ==
    /\ dataframe = [columns |-> <<>>, rows |-> <<>>]
    /\ _types = NoTypes
    /\ typedRows = -1
    /\ value = NoCell
    /\ guess = ""

InitInfer ==
    /\ \E row \in BaseRows, n \in BaseLens :
          dataframe = [columns |-> InferColumns,
                       rows |-> [i \in 1..n |-> row]]
    /\ _types = NoTypes
    /\ typedRows = -1
    /\ value = NoCell
    /\ guess = ""

\* one more row at the end of the frame: short frames grow from nothing,
\* long ones grow across the end of the sample
AppendRow ==
    /\ \/ Len(dataframe.rows) < MaxAppend + 1
       \/ /\ Len(dataframe.rows) >= SampleSize - 1
          /\ Len(dataframe.rows) < SampleSize + MaxAppend - 1
    /\ \E row \in Rows :
          dataframe' = [dataframe EXCEPT !.rows = Append(@, row)]
    /\ UNCHANGED <<_types, typedRows, value, guess>>

\* _types = identify_colummns_types(dataframe)
IdentifyColumnsTypes ==
    /\ _types' = identify_colummns_types(dataframe)
    /\ typedRows' = Len(dataframe.rows)
    /\ UNCHANGED <<dataframe, value, guess>>

\* ------------------------------------------------- inputs of SpecGuess
\* blanks around a text
MaxPad == 1

Blanks(n) == [i \in 1..n |-> " "]

Texts == {v.text : v \in Values}

GuessInputs ==
    {Cell(Blanks(l) \o t \o Blanks(r), p) :
        l \in 0..MaxPad, r \in 0..MaxPad, t \in Texts, p \in BOOLEAN}

InitGuess ==
    /\ dataframe = [columns |-> InferColumns, rows |-> <<>>]
    /\ _types = NoTypes
    /\ typedRows = -1
    /\ value \in GuessInputs
    /\ guess = ""

\* guess = guess_str_type(value)
GuessStrType ==
    /\ guess = ""
    /\ guess' = guess_str_type(value)
    /\ UNCHANGED <<dataframe, _types, typedRows, value>>

\* ------------------------------------------------------ names and paths
\* os.path.join of relative paths
path_join(a, b) == a \o b

\* os.path.basename
basename(path) == Last(path)

\* base.split('.')[:1] + base.split('.')[-1:]
filename_and_ext(filename) ==
    LET base == basename(filename) IN <<base[1], base[Len(base)]>>

\* filename.rpartition('.')[-1]: without a '.' in the base name the tail is
\* the whole path string, which holds a '/' as soon as there is a directory
rpartition_last(path) ==
    LET base == basename(path) IN
    IF Len(base) > 1 THEN base[Len(base)]
    ELSE IF Len(path) = 1 THEN base[1]
    ELSE "/"

\* title after sanity_name
Title == <<"T">>
DownloadDir == <<"download">>
CsvDir == <<"csv">>
SqlDir == <<"sql">>

dwn_dest == path_join(<<Title>>, <<DownloadDir>>)
csv_dest == path_join(<<Title>>, <<CsvDir>>)
sql_dest == path_join(<<Title>>, <<SqlDir>>)

\* ------------------------------------------------------------ file system
NoFiles == [q \in {} |-> 0]

Put(fs, path, content) ==
    [q \in (DOMAIN fs) \cup {path} |-> IF q = path THEN content ELSE fs[q]]

Exists(fs, path) == path \in DOMAIN fs

Parent(path) == SubSeq(path, 1, Len(path) - 1)

\* every proper prefix of the path
Ancestors(path) == {SubSeq(path, 1, n) : n \in 1..(Len(path) - 1)}

\* ----------------------------------------------------------- file contents
Garbage == [fmt |-> "garbage"]
Sheet(names, rows) == [fmt |-> "sheet", names |-> names, rows |-> rows]
Text(names, rows) == [fmt |-> "text", names |-> names, rows |-> rows]
\* keys: json['data'] and json['meta']['view']['columns'] are present
Json(keys, names, rows) ==
    [fmt |-> "json", keys |-> keys, names |-> names, rows |-> rows]
\* root: the children of the root element, each a sequence of records,
\* each record a sequence of <<tag, text>> elements
Xml(root) == [fmt |-> "xml", root |-> root]
Rdf(triples) == [fmt |-> "rdf", triples |-> triples]
\* entries: sequence of [f_name |-> path inside the archive, content |-> ..]
Zip(entries) == [fmt |-> "zip", entries |-> entries]
CsvOut(df) == [fmt |-> "csv", df |-> df]
SqlOut(table, columns) == [fmt |-> "sql", table |-> table, columns |-> columns]

\* ------------------------------------------------------------- the readers
Label(name, dup) == <<name, dup>>

DF(df) == [kind |-> "df", df |-> df]
NoTable == [kind |-> "None"]
Raise(e) == [kind |-> "raise", exc |-> e]

Distinct(seq) == \A i, j \in 1..Len(seq) : seq[i] = seq[j] => i = j

\* pandas names a repeated header cell name, name.1, name.2, ...
mangle_dupe_cols(names) ==
    [i \in 1..Len(names) |->
        Label(names[i], Cardinality({j \in 1..(i - 1) : names[j] = names[i]}))]

\* pandas.read_excel: raises on a missing file or on a non-workbook
read_excel(fs, path) ==
    IF ~Exists(fs, path) THEN Raise("FileNotFoundError")
    ELSE IF fs[path].fmt # "sheet" THEN Raise("ValueError")
    ELSE DF([columns |-> mangle_dupe_cols(fs[path].names),
             rows |-> fs[path].rows])

\* pandas.read_csv: raises on a missing file or on undecodable content
read_csv(fs, path) ==
    IF ~Exists(fs, path) THEN Raise("FileNotFoundError")
    ELSE IF fs[path].fmt # "text" THEN Raise("ParserError")
    ELSE DF([columns |-> mangle_dupe_cols(fs[path].names),
             rows |-> fs[path].rows])

dataframe_from_json(fs, path) ==
    IF ~Exists(fs, path) THEN NoTable
    ELSE IF fs[path].fmt # "json" THEN NoTable
    ELSE IF ~fs[path].keys THEN NoTable
    ELSE LET column_names == fs[path].names
             rows == fs[path].rows
         IN IF \E r \in 1..Len(rows) : Len(rows[r]) # Len(column_names)
            THEN NoTable
            ELSE DF([columns |-> [i \in 1..Len(column_names) |->
                                     Label(column_names[i], 0)],
                     rows |-> rows])

TagOrder == <<"a", "b", "c">>

IsNewTag(df, node, t) ==
    /\ \E e \in 1..Len(node) : node[e][1] = t
    /\ Label(t, 0) \notin Labels(df)

\* the tags of the record that the frame lacks, sorted
NewTags(df, node) ==
    LET keep == {i \in 1..Len(TagOrder) : IsNewTag(df, node, TagOrder[i])}
        F[i \in 0..Len(TagOrder)] ==
            IF i = 0 THEN <<>>
            ELSE IF i \in keep THEN Append(F[i - 1], Label(TagOrder[i], 0))
            ELSE F[i - 1]
    IN F[Len(TagOrder)]

\* dataframe.append(pd_serie, ignore_index=True)
append_serie(df, node) ==
    LET combined == df.columns \o NewTags(df, node)
        old == [r \in 1..Len(df.rows) |->
                  [p \in 1..Len(combined) |->
                      IF p <= Len(df.columns) THEN df.rows[r][p] ELSE Missing]]
        new == [p \in 1..Len(combined) |->
                  IF \E e \in 1..Len(node) : Label(node[e][1], 0) = combined[p]
                  THEN node[CHOOSE e \in 1..Len(node) :
                                Label(node[e][1], 0) = combined[p]][2]
                  ELSE Missing]
    IN [columns |-> combined, rows |-> Append(old, new)]

RECURSIVE xml_rows(_, _)
xml_rows(df, nodes) ==
    IF nodes = <<>> THEN df
    ELSE xml_rows(append_serie(df, nodes[1]), Tail(nodes))

dataframe_from_xml(fs, path) ==
    IF ~Exists(fs, path) THEN NoTable
    ELSE IF fs[path].fmt # "xml" THEN NoTable
    ELSE IF fs[path].root = <<>> THEN NoTable
    ELSE LET xroot == fs[path].root[1] IN
         \* a Series with a repeated index cannot be reindexed
         IF \E n \in 1..Len(xroot) :
               ~Distinct([e \in 1..Len(xroot[n]) |-> xroot[n][e][1]])
         THEN NoTable
         ELSE DF(xml_rows([columns |-> <<>>, rows |-> <<>>], xroot))

dataframe_from_rfd(fs, path) ==
    IF ~Exists(fs, path) THEN NoTable
    ELSE IF fs[path].fmt # "rdf" THEN NoTable
    ELSE IF fs[path].triples = <<>>
         THEN DF([columns |-> <<>>, rows |-> <<>>])
         ELSE DF([columns |-> <<Label("0", 0), Label("1", 0), Label("2", 0)>>,
                  rows |-> fs[path].triples])

read_file(fs, filename) ==
    LET file_type == rpartition_last(filename) IN
    IF file_type \in {"xlsx", "xls"} THEN read_excel(fs, filename)
    ELSE IF file_type = "csv" THEN read_csv(fs, filename)
    ELSE IF file_type = "xml" THEN dataframe_from_xml(fs, filename)
    ELSE IF file_type = "json" THEN dataframe_from_json(fs, filename)
    ELSE IF file_type = "rdf" THEN dataframe_from_rfd(fs, filename)
    ELSE NoTable

\* ------------------------------------------------- process_file, process_zip
\* The functions below thread the record
\*   [files, dirs, handles, log, exc]
\* through the statements of the code; exc # None means an exception is
\* propagating and the remaining statements are skipped.
print(s, line) == [s EXCEPT !.log = Append(@, line)]

log_unssuported(s) == print(s, "# Bad File")

\* dataframe.to_csv(output_name + '.csv', ...)
export_csv(s, df, output_name) ==
    IF Parent(output_name) \notin s.dirs
    THEN [s EXCEPT !.exc = "FileNotFoundError"]
    ELSE [s EXCEPT !.files =
             Put(@, Parent(output_name)
                      \o <<basename(output_name) \o <<"csv">>>>,
                 CsvOut(df))]

\* pandas.io.sql.get_schema(dataframe, table_name, dtype=df_columns): one
\* declaration per column of the frame, in the order of the frame
generate_sql(df, table_name) == SqlOut(table_name, df.columns)

\* open(f'{filename}.sql', 'w') and f.write(sql)
write_sql(s, df, filename) ==
    LET b_name == basename(filename)
        sql == generate_sql(df, b_name)
    IN IF Parent(filename) \notin s.dirs
       THEN [s EXCEPT !.exc = "FileNotFoundError"]
       ELSE [s EXCEPT !.files =
                Put(@, Parent(filename) \o <<b_name \o <<"sql">>>>, sql)]

process_file(s, filename) ==
    LET b_name == filename_and_ext(filename)[1]
        df == read_file(s.files, path_join(dwn_dest, filename))
    IN IF df.kind = "raise" THEN [s EXCEPT !.exc = df.exc]
       ELSE IF df.kind = "df"
       THEN LET s1 == export_csv(print(s, "Exporting to csv"), df.df,
                                 path_join(csv_dest, <<<<b_name>>>>))
            IN IF s1.exc # None THEN s1
               ELSE write_sql(print(s1, "Exporting to sql"), df.df,
                              path_join(sql_dest, <<<<b_name>>>>))
       ELSE log_unssuported(s)

\* f_zip.extract(f_name, path): writes the member below path, creating the
\* directories on the way
extract(s, entry, path) ==
    LET target == path_join(path, entry.f_name) IN
    [s EXCEPT !.dirs = @ \cup {d \in Ancestors(target) : Len(d) > Len(path)},
              !.files = Put(@, target, entry.content)]

\* for f_name in f_zip.namelist(): ...
RECURSIVE zip_entries(_, _, _)
zip_entries(s, entries, z_name) ==
    IF entries = <<>> \/ s.exc # None THEN s
    ELSE LET f_name == entries[1].f_name
             b_ext == filename_and_ext(f_name)[2]
             dir == path_join(dwn_dest, <<<<z_name>>>>)
         IN IF b_ext \in ALLOWED_EXTS
            THEN zip_entries(process_file(extract(s, entries[1], dir),
                                          path_join(dir, f_name)),
                             Tail(entries), z_name)
            ELSE zip_entries(s, Tail(entries), z_name)

\* process_zip up to its last statement; the archive handle f_zip is opened
\* and no statement closes it
process_zip(s, filename) ==
    LET archive == path_join(dwn_dest, <<filename>>)
        z_name == filename_and_ext(<<filename>>)[1]
    IN IF s.files[archive].fmt # "zip"
       THEN [s EXCEPT !.exc = "BadZipFile"]
       ELSE zip_entries([s EXCEPT !.handles = @ \cup {archive},
                                  !.dirs = @ \cup
                                      {path_join(dwn_dest, <<<<z_name>>>>)}],
                        s.files[archive].entries, z_name)

\* ------------------------------------------------------ inputs of Spec
GoodRows == <<<<IntOne, Word>>, <<IntTwo, Word>>>>

JsonGood == Json(TRUE, <<"a", "b">>, GoodRows)
\* two columns of meta.view.columns carry the same name
JsonDup == Json(TRUE, <<"a", "a">>, GoodRows)
\* no meta.view.columns
JsonNoKeys == Json(FALSE, <<>>, <<>>)
\* rows wider than the column list
JsonWide == Json(TRUE, <<"a">>, GoodRows)
TextDup == Text(<<"a", "a">>, GoodRows)
SheetGood == Sheet(<<"a", "b">>, GoodRows)
\* records with different tags
XmlGood == Xml(<<<< <<<<"b", IntOne>>, <<"a", Word>>>>, <<<<"c", IntTwo>>>> >>>>)
\* a record that repeats a tag
XmlDup == Xml(<<<< <<<<"a", IntOne>>, <<"a", Word>>>> >>>>)
XmlEmpty == Xml(<<>>)
RdfGood == Rdf(<<<<Word, Word, IntOne>>>>)

Entry(f_name, content) == [f_name |-> f_name, content |-> content]

\* an archive whose supported members are caught by the readers
ZipQuiet == Zip(<<Entry(<<<<"notes", "txt">>>>, Garbage),
                  Entry(<<<<"a", "json">>>>, JsonGood),
                  Entry(<<<<"b", "csv">>>>, TextDup),
                  Entry(<<<<"inner", "zip">>>>, Garbage),
                  Entry(<<<<"sub">>, <<"d", "xml">>>>, XmlGood)>>)
\* an archive with a workbook
ZipSheet == Zip(<<Entry(<<<<"c", "xlsx">>>>, SheetGood),
                  Entry(<<<<"a", "json">>>>, JsonGood)>>)

Url(resp, content) == [resp |-> resp, content |-> content]

FileInfo(name, url) == [name |-> name, url |-> url]

\* the (name, url) pairs a page can list, names after sanity_name
FileInfos ==
    {FileInfo(<<"a", "json">>, Url("data", c)) :
        c \in {JsonGood, JsonDup, JsonNoKeys, JsonWide}}
    \cup {FileInfo(<<"b", "csv">>, Url("data", c)) : c \in {TextDup, Garbage}}
    \cup {FileInfo(<<"c", "xlsx">>, Url("data", c)) :
             c \in {SheetGood, Garbage}}
    \cup {FileInfo(<<"d", "xml">>, Url("data", c)) :
             c \in {XmlGood, XmlDup, XmlEmpty, Garbage}}
    \cup {FileInfo(<<"e", "rdf">>, Url("data", c)) : c \in {RdfGood, Garbage}}
    \cup {FileInfo(<<"g", "zip">>, Url("data", c)) :
             c \in {ZipQuiet, ZipSheet, Garbage}}
    \cup {FileInfo(<<"h", "v2", "json">>, Url(r, JsonGood)) :
             r \in {"html", "missing", "reset", "refused"}}
    \cup {FileInfo(<<"README">>, Url("data", Garbage))}

UrlLists == UNION {[1..n -> FileInfos] : n \in 0..MaxFiles}

AllDirs == {<<Title>>, dwn_dest, csv_dest, sql_dest}

\* the working directory before the run: empty, left by a complete earlier
\* run, or left by a run interrupted before os.mkdir(.. 'sql')
PreDirs == {{}, AllDirs, AllDirs \ {sql_dest}}

InitMainIdle ==
    /\ urls = <<>>
    /\ idx = 1
    /\ pc = "idle"
    /\ dirs = {}
    /\ files = NoFiles
    /\ handles = {}
    /\ log = <<>>
    /\ exc = None

InitMain ==
    /\ urls = <<>>
    /\ idx = 1
    /\ pc = "retrieve"
    /\ dirs \in PreDirs
    /\ files = NoFiles
    /\ handles = {}
    /\ log = <<>>
    /\ exc = None

\* --------------------------------------------------------- steps of main
Cur == [files |-> files, dirs |-> dirs, handles |-> handles, log |-> log,
        exc |-> exc]

\* the state after the statements of one step: an exception ends the run
Commit(s, next) ==
    /\ files' = s.files
    /\ dirs' = s.dirs
    /\ handles' = s.handles
    /\ log' = s.log
    /\ exc' = s.exc
    /\ pc' = IF s.exc # None THEN "raised" ELSE next

\* f_name = '.'.join([b_name, b_ext])
FName(k) == LET fe == filename_and_ext(<<urls[k].name>>) IN <<fe[1], fe[2]>>

\* title, urls = retreive_download_url(url, filename)
RetreiveDownloadUrl ==
    /\ pc = "retrieve"
    /\ \/ /\ \E list \in UrlLists : urls' = list
          /\ pc' = "folders"
          /\ exc' = exc
       \/ /\ urls' = urls
          /\ pc' = "raised"
          /\ exc' = "Bad URL"
    /\ UNCHANGED <<idx, dirs, files, handles, log>>
    /\ UNCHANGED inferVars

create_folder_structure(ds, root_folder_name) ==
    IF root_folder_name \notin ds
    THEN ds \cup {root_folder_name,
                  path_join(root_folder_name, <<DownloadDir>>),
                  path_join(root_folder_name, <<CsvDir>>),
                  path_join(root_folder_name, <<SqlDir>>)}
    ELSE ds

CreateFolderStructure ==
    /\ pc = "folders"
    /\ dirs' = create_folder_structure(dirs, <<Title>>)
    /\ pc' = "loop"
    /\ UNCHANGED <<urls, idx, files, handles, log, exc>>
    /\ UNCHANGED inferVars

\* headers.get('Content-Type', '') in place of the 'text/html' default
download_file_no_default(s, destine, filename, url) ==
    LET f_path == path_join(destine, <<filename>>) IN
    IF url.resp = "refused"
    THEN [ret |-> FALSE, s |-> [s EXCEPT !.exc = "ConnectionError"]]
    ELSE IF url.resp = "html"
    THEN [ret |-> FALSE, s |-> s]
    ELSE IF destine \notin s.dirs
    THEN [ret |-> FALSE, s |-> [s EXCEPT !.exc = "FileNotFoundError"]]
    ELSE IF url.resp = "reset"
    THEN [ret |-> FALSE,
          s |-> [s EXCEPT !.files = Put(@, f_path, Garbage),
                          !.handles = @ \cup {f_path},
                          !.exc = "ChunkedEncodingError"]]
    ELSE [ret |-> TRUE, s |-> [s EXCEPT !.files = Put(@, f_path, url.content)]]

\* download_file(destine, filename, url) on the state s
download_file(s, destine, filename, url) ==
    LET f_path == path_join(destine, <<filename>>) IN
    IF url.resp = "refused"
    THEN [ret |-> FALSE, s |-> [s EXCEPT !.exc = "ConnectionError"]]
    ELSE IF url.resp \in {"html", "missing"}
    THEN [ret |-> FALSE, s |-> s]
    ELSE IF destine \notin s.dirs
    THEN [ret |-> FALSE, s |-> [s EXCEPT !.exc = "FileNotFoundError"]]
    ELSE IF url.resp = "reset"
    THEN [ret |-> FALSE,
          s |-> [s EXCEPT !.files = Put(@, f_path, Garbage),
                          !.handles = @ \cup {f_path},
                          !.exc = "ChunkedEncodingError"]]
    ELSE [ret |-> TRUE, s |-> [s EXCEPT !.files = Put(@, f_path, url.content)]]

\* the head of the loop body: the two prints and download_file; on failure
\* the else branch of main logs the file and the loop goes on
DownloadFile ==
    /\ pc = "loop"
    /\ idx <= Len(urls)
    /\ LET s0 == print(print(Cur, "Processing"), "Downloading")
           d == download_file(s0, dwn_dest, FName(idx), urls[idx].url)
       IN IF d.s.exc # None THEN Commit(d.s, "loop") /\ idx' = idx
          ELSE IF d.ret THEN Commit(d.s, "downloaded") /\ idx' = idx
          ELSE Commit(log_unssuported(d.s), "loop") /\ idx' = idx + 1
    /\ UNCHANGED urls
    /\ UNCHANGED inferVars

\* if success: ... else: process_file(title, f_name)
ProcessFile ==
    /\ pc = "downloaded"
    /\ filename_and_ext(<<urls[idx].name>>)[2] # "zip"
    /\ LET s1 == process_file(Cur, <<FName(idx)>>) IN
          /\ Commit(s1, "loop")
          /\ idx' = IF s1.exc # None THEN idx ELSE idx + 1
    /\ UNCHANGED urls
    /\ UNCHANGED inferVars

\* if success: if b_ext == 'zip': process_zip(title, f_name).  When the
\* function returns, f_zip is garbage: its finalizer may close the archive
\* (finalized) or not have run yet.
ProcessZip ==
    /\ pc = "downloaded"
    /\ filename_and_ext(<<urls[idx].name>>)[2] = "zip"
    /\ \E finalized \in BOOLEAN :
          LET s1 == process_zip(Cur, FName(idx))
              s2 == IF s1.exc = None /\ finalized
                    THEN [s1 EXCEPT !.handles =
                             @ \ {path_join(dwn_dest, <<FName(idx)>>)}]
                    ELSE s1
          IN /\ Commit(s2, "loop")
             /\ idx' = IF s2.exc # None THEN idx ELSE idx + 1
    /\ UNCHANGED urls
    /\ UNCHANGED inferVars

\* the list is exhausted: main returns
Return ==
    /\ pc = "loop"
    /\ idx > Len(urls)
    /\ pc' = "done"
    /\ UNCHANGED <<urls, idx, dirs, files, handles, log, exc>>
    /\ UNCHANGED inferVars

\* -------------------------------------------------------- specifications
Init == InitInferIdle /\ InitMain

Next == \/ RetreiveDownloadUrl
        \/ CreateFolderStructure
        \/ DownloadFile
        \/ ProcessFile
        \/ ProcessZip
        \/ Return

Spec == Init /\ [][Next]_vars

InitI == InitInfer /\ InitMainIdle

NextInfer == \/ (AppendRow /\ UNCHANGED mainVars)
             \/ (IdentifyColumnsTypes /\ UNCHANGED mainVars)

SpecInfer == InitI /\ [][NextInfer]_vars

InitG == InitGuess /\ InitMainIdle

NextGuess == GuessStrType /\ UNCHANGED mainVars

SpecGuess == InitG /\ [][NextGuess]_vars

\* ---------------------------------------------------------------- claims
CsvPath(b_name) == path_join(csv_dest, <<<<b_name, "csv">>>>)
SqlPath(b_name) == path_join(sql_dest, <<<<b_name, "sql">>>>)

\* the path main downloads the current file to
CurPath == path_join(dwn_dest, <<FName(idx)>>)

Recognized == {"xls", "xlsx", "csv", "json", "xml", "rdf"}

\* C1: for a downloaded file of a recognized format, read_file returns a
\* frame or None; it never raises to process_file.
C1_ReadFileNeverRaises ==
    (pc = "downloaded" /\ FName(idx)[2] \in Recognized)
        => read_file(files, CurPath).kind \in {"df", "None"}

\* C2: once a file is downloaded the loop of main reaches its outcome and
\* goes on to the next file.  Stated for the files that are not archives and
\* with the three output folders in place, where the only failure left is the
\* failure to read.
C2_BatchNeverHalts ==
    [][(pc = "downloaded" /\ FName(idx)[2] # "zip" /\ AllDirs \subseteq dirs)
          => (pc' = "loop" /\ idx' = idx + 1)]_vars

\* reading the member where it was extracted yields a frame
WellFormedEntry(entry) ==
    /\ filename_and_ext(entry.f_name)[2] \in Recognized
    /\ read_file(Put(NoFiles, entry.f_name, entry.content),
                 entry.f_name).kind = "df"

\* C3: when process_zip has handled an archive, every well-formed member
\* with a supported extension has its CSV and its SQL output.
C3_ZipEntriesExported ==
    \A k \in 1..Len(urls) :
        (k < idx /\ urls[k].url.resp = "data"
                 /\ urls[k].url.content.fmt = "zip"
                 /\ filename_and_ext(<<urls[k].name>>)[2] = "zip")
        => \A e \in 1..Len(urls[k].url.content.entries) :
              LET entry == urls[k].url.content.entries[e]
                  b_name == filename_and_ext(entry.f_name)[1]
              IN WellFormedEntry(entry)
                    => /\ Exists(files, CsvPath(b_name))
                       /\ Exists(files, SqlPath(b_name))

\* the cell guesses, None left out, of column p over the rows that were typed
SampledGuesses(p) ==
    {guess_str_type(dataframe.rows[r][p]) :
        r \in 1..Min(typedRows, SampleSize)} \ {None}

PriorityOf(G) ==
    IF "str" \in G THEN "VARCHAR(100)"
    ELSE IF "float" \in G THEN "DECIMAL(17,4)"
    ELSE IF "int" \in G THEN "INT"
    ELSE IF "date" \in G THEN "DATETIME"
    ELSE "VARCHAR(100)"

\* C4: the SQL type of a column is fixed by the set of the non-missing
\* guesses of its sampled cells, by the priority str > float > int > date,
\* VARCHAR(100) when the set holds none of them.
C4_PriorityBySet ==
    typedRows >= 0 =>
        /\ DOMAIN _types = Labels(dataframe)
        /\ \A p \in 1..Len(dataframe.columns) :
              _types[dataframe.columns[p]] = PriorityOf(SampledGuesses(p))

\* a column typed DECIMAL(17,4) from a sample that mixes int and float cells
C4_Witness ==
    /\ typedRows >= 2
    /\ SampledGuesses(1) = {"int", "float"}
    /\ _types[dataframe.columns[1]] = "DECIMAL(17,4)"

\* C5: a frame that agrees on its first 100 rows with the frame that was
\* typed gets the same mapping (rows are only ever appended, so the frame of
\* a state agrees with every earlier frame of at least 100 rows).
C5_SampleOnly ==
    typedRows >= SampleSize => identify_colummns_types(dataframe) = _types

\* 100 integer cells typed INT, then a text cell in row 101
C5_Witness ==
    /\ typedRows = SampleSize
    /\ Len(dataframe.rows) > SampleSize
    /\ \A r \in 1..SampleSize : guess_str_type(dataframe.rows[r][1]) = "int"
    /\ guess_str_type(dataframe.rows[SampleSize + 1][1]) = "str"
    /\ _types[dataframe.columns[1]] = "INT"
    /\ identify_colummns_types(dataframe)[dataframe.columns[1]] = "INT"

BaseNames == {filename_and_ext(<<urls[k].name>>)[1] : k \in 1..Len(urls)}

\* C6: between two files and at the end of the run, a CSV output exists
\* exactly when the SQL output of the same name exists.
C6_AllOrNothing ==
    pc \in {"loop", "done", "raised"} =>
        \A b_name \in BaseNames :
            Exists(files, CsvPath(b_name)) <=> Exists(files, SqlPath(b_name))

\* C7: no handle is open when the processing of the next file begins.
C7_HandlesReleased ==
    (pc = "loop" /\ idx <= Len(urls)) => handles = {}

\* C8: the frame of every exported table has pairwise distinct column names.
C8_UniqueColumns ==
    \A path \in DOMAIN files :
        files[path].fmt = "csv" => Distinct(files[path].df.columns)

HasSeparator(t) == \E i \in 1..Len(t) : t[i] \in {"-", "/"}

\* C9: on the trimmed text, 'nan' gives no guess; else the guess is date
\* exactly when the text holds '-' or '/', is 8, 9 or 10 long and the date
\* parser accepts it; else the type name of the literal; else str.
C9_GuessOrder ==
    guess # "" =>
        LET t == strip(value.text) IN
        /\ t = NaN <=> guess = None
        /\ guess = "date" <=> /\ t # NaN
                              /\ HasSeparator(t)
                              /\ Len(t) \in {8, 9, 10}
                              /\ value.parses
        /\ (guess \notin {None, "date"} /\ literal_eval(t) # "error")
              => guess = literal_eval(t)
        /\ (guess \notin {None, "date"} /\ literal_eval(t) = "error")
              => guess = "str"

\* a text that is an int literal and an accepted date is guessed date
C9_Witness ==
    /\ guess = "date"
    /\ literal_eval(strip(value.text)) = "int"
    /\ value.text # strip(value.text)

NotData(k) == urls[k].url.resp \in {"html", "missing"}

\* C10: for an HTML or header-less response the loop writes no file, logs
\* the file as unsupported and moves to the next file without a processing
\* step; a processing step is taken only for a file that download_file
\* wrote and returned True for.
C10_HtmlIsUnsupported ==
    [][/\ (pc = "loop" /\ idx <= Len(urls) /\ NotData(idx))
             => /\ files' = files
                /\ handles' = handles
                /\ pc' = "loop"
                /\ idx' = idx + 1
                /\ log' = log \o <<"Processing", "Downloading", "# Bad File">>
       /\ (pc = "downloaded")
             => /\ urls[idx].url.resp = "data"
                /\ Exists(files, CurPath)
                /\ files[CurPath] = urls[idx].url.content]_vars

\* the second file of the list is about to start after a header-less
\* response to the first was logged
C10_Witness ==
    /\ pc = "loop"
    /\ idx = 2
    /\ Len(urls) >= 2
    /\ urls[1].url.resp = "missing"
    /\ log = <<"Processing", "Downloading", "# Bad File">>
    /\ files = NoFiles

====
